---- MODULE Spec2Model ----
(***************************************************************************)
(* ScrollSensie: the scroll-depth ingestion endpoint (POST /api/track),    *)
(* the embeddable tracking script served by /api/tracker.js, and the       *)
(* dashboard's in-memory aggregation of the fetched events.                *)
(*                                                                         *)
(* Six specifications share this module:                                   *)
(*   Spec        the ingestion endpoint over the two storage tables        *)
(*   SpecScript  one page view of the tracking script                      *)
(*   SpecDash    the dashboard's loaded event set and its statistics       *)
(*   SpecRefresh the dashboard's refreshes, several in flight              *)
(*   SpecDevice  the device classification applied to rows                 *)
(*   SpecAuth    the dashboard across sign-in, sign-out and change of user *)
(*                                                                         *)
(* Representation of JSON values.  A JSON object is a record that has a    *)
(* field exactly when the object has the key.  A JSON number is an Int;    *)
(* a number with a fractional part x + 1/2 is the Int x with the key's     *)
(* name listed in the object's "frac" set.  An epoch-millisecond time is   *)
(* [d |-> days, ms |-> milliseconds within the day], because the values    *)
(* the code handles (1.7e12, 8.64e15) exceed the checker's integers.       *)
(* A database row is a record that has a column exactly when the column    *)
(* is not NULL.                                                            *)
(***************************************************************************)
EXTENDS Integers, Sequences, FiniteSets, TLC

VARIABLES
  trackers,       \* table trackers: the set of tracker ids
  scroll_events,  \* table scroll_events: the rows, in insertion order
  req,            \* POST /api/track invocations: request, position, response
  phase,          \* tracking script: "init", "running", "noid", "unloaded"
  TRACKER_ID,     \* tracking script: the resolved tracker id
  maxDepth,       \* tracking script: running maximum depth
  ticking,        \* tracking script: a requestAnimationFrame callback is pending
  fired,          \* tracking script: milestones already sent
  scrollEvents,   \* tracking script: length of the scrollEvents array
  now,            \* tracking script: milliseconds elapsed since startTime
  sent,           \* tracking script: the messages handed to fetch / sendBeacon
  warned,         \* tracking script: number of console warnings
  lastGeom,       \* tracking script: the page geometry the last callback read
  lastDepth,      \* tracking script: the depth the last callback computed
  events,         \* dashboard: the loaded event set (useState events)
  milestoneStats, \* dashboard: the memoised milestone statistics
  engagementStats,\* dashboard: the memoised engagement statistics
  trackerId,      \* dashboard: the selected tracker (useState trackerId)
  userStats,      \* dashboard: the active users (useState userStats)
  isRefreshing,   \* dashboard: the refresh indicator (useState isRefreshing)
  alerts,         \* dashboard: number of alert() dialogs shown
  logged,         \* dashboard: number of console.error calls
  refresh,        \* dashboard: the refreshes started: their loads and what they got
  session,        \* dashboard: the signed-in user's id, "" without a session
  trackerList,    \* dashboard: the tracker ids listed (useState trackers)
  loads,          \* dashboard: the loadTrackers calls waiting for their answer
  deviceRow,      \* device classification: the row last classified
  deviceType      \* device classification: its result

trackVars == <<trackers, scroll_events, req>>
scriptVars == <<phase, TRACKER_ID, maxDepth, ticking, fired, scrollEvents, now, sent, warned,
               lastGeom, lastDepth>>
authVars == <<session, trackerList, loads>>
dashVars == <<events, milestoneStats, engagementStats, trackerId, userStats, isRefreshing,
             alerts, logged, refresh, session, trackerList, loads, deviceRow, deviceType>>
vars == <<trackers, scroll_events, req, phase, TRACKER_ID, maxDepth, ticking, fired,
          scrollEvents, now, sent, warned, lastGeom, lastDepth, events, milestoneStats,
          engagementStats, trackerId, userStats, isRefreshing, alerts, logged, refresh,
          session, trackerList, loads, deviceRow, deviceType>>

(***************************************************************************)
(* Bounds of the model.                                                    *)
(***************************************************************************)
MaxReq == 2        \* POST invocations in one behaviour
MaxClock == 2      \* clock advances in one page view
MaxEvents == 3     \* rows in one dashboard fetch
MaxRefresh == 2    \* refreshes started in one behaviour

Has(o, k) == k \in DOMAIN o

(***************************************************************************)
(* Epoch-millisecond times.                                                *)
(***************************************************************************)
MsPerDay == 86400000
MaxDateDays == 100000000

Time(d, ms) == [d |-> d, ms |-> ms]

TimeAdd(t, n) == Time(t.d + ((t.ms + n) \div MsPerDay), (t.ms + n) % MsPerDay)

TimePositive(t) == t.d > 0 \/ (t.d = 0 /\ t.ms > 0)

\* new Date(t) is a valid date iff |t| <= 8.64e15 ms = 100,000,000 days
ValidDate(t) ==
  /\ (t.d < MaxDateDays \/ (t.d = MaxDateDays /\ t.ms = 0))
  /\ t.d >= -MaxDateDays

\* new Date(timestamp).toISOString(): the ISO text of a valid date
toISOString(t) == <<"iso", t.d, t.ms>>

(***************************************************************************)
(* trackEventSchema (zod).                                                 *)
(***************************************************************************)
IsFrac(o, k) == k \in o.frac

\* z.number().min(lo) on a present key
NumMin(o, k, lo) == o[k] >= lo

\* z.number().max(hi) on a present key: x + 1/2 <= hi iff x < hi
NumMax(o, k, hi) == IF IsFrac(o, k) THEN o[k] < hi ELSE o[k] <= hi

\* z.number().int()
NumInt(o, k) == ~IsFrac(o, k)

\* z.string().url(): the strings the URL parser accepts
WellFormedUrls == {"https://example.com", "https://example.com/post?id=1"}

IsUrl(s) == s \in WellFormedUrls

EngagementOK(e) ==
  /\ Has(e, "timeOnPage") /\ NumInt(e, "timeOnPage") /\ NumMin(e, "timeOnPage", 0)
  /\ Has(e, "maxDepth") /\ NumMin(e, "maxDepth", 0) /\ NumMax(e, "maxDepth", 100)
  /\ Has(e, "scrollEvents") /\ NumInt(e, "scrollEvents") /\ NumMin(e, "scrollEvents", 0)
  /\ Has(e, "avgScrollSpeed") /\ NumMin(e, "avgScrollSpeed", 0)

DeviceOK(dv) ==
  /\ Has(dv, "ua") => Len(dv.ua) <= 512
  /\ Has(dv, "width") =>
       NumInt(dv, "width") /\ dv.width > 0 /\ NumMax(dv, "width", 20000)
  /\ Has(dv, "height") =>
       NumInt(dv, "height") /\ dv.height > 0 /\ NumMax(dv, "height", 20000)

\* the schema without the bounds on scrollDepth
SchemaOKNoDepthRange(b) ==
  /\ Has(b, "trackerId") /\ Len(b.trackerId) >= 8 /\ Len(b.trackerId) <= 64
  /\ Has(b, "scrollDepth")
  /\ Has(b, "pageUrl") /\ IsUrl(b.pageUrl)
  /\ Has(b, "timestamp") /\ NumInt(b, "timestamp") /\ TimePositive(b.timestamp)

\* trackEventSchema.safeParse(body).success
SchemaOK(b) ==
  /\ Has(b, "trackerId") /\ Len(b.trackerId) >= 8 /\ Len(b.trackerId) <= 64
  /\ Has(b, "scrollDepth") /\ NumMin(b, "scrollDepth", 0) /\ NumMax(b, "scrollDepth", 100)
  /\ Has(b, "pageUrl") /\ IsUrl(b.pageUrl)
  /\ Has(b, "timestamp") /\ NumInt(b, "timestamp") /\ TimePositive(b.timestamp)
  /\ Has(b, "timeOnPage") => NumInt(b, "timeOnPage") /\ NumMin(b, "timeOnPage", 0)
  /\ Has(b, "totalTimeOnPage") =>
       NumInt(b, "totalTimeOnPage") /\ NumMin(b, "totalTimeOnPage", 0)
  /\ Has(b, "maxScrollDepth") =>
       NumMin(b, "maxScrollDepth", 0) /\ NumMax(b, "maxScrollDepth", 100)
  /\ Has(b, "scrollEvents") => NumInt(b, "scrollEvents") /\ NumMin(b, "scrollEvents", 0)
  /\ Has(b, "engagement") => EngagementOK(b.engagement)
  /\ Has(b, "device") => DeviceOK(b.device)

(***************************************************************************)
(* The requests the model posts: bodies around every schema boundary the   *)
(* endpoint tests, with and without the forwarding headers.  An absent     *)
(* header is the empty string (headers.get returns null; both are falsy).  *)
(***************************************************************************)
NoObject == [k \in {} |-> 0]

BaseBody ==
  [trackerId |-> "abcd1234", scrollDepth |-> 50, pageUrl |-> "https://example.com",
   timestamp |-> Time(19675, 80000000), frac |-> {}]

MilestoneBody ==
  [trackerId |-> "ffff0000", scrollDepth |-> 75, pageUrl |-> "https://example.com/post?id=1",
   timestamp |-> Time(19675, 80012000), timeOnPage |-> 12000, totalTimeOnPage |-> 12000,
   maxScrollDepth |-> 75, scrollEvents |-> 3,
   engagement |-> [timeOnPage |-> 12000, maxDepth |-> 75, scrollEvents |-> 3,
                   avgScrollSpeed |-> 4000, frac |-> {}],
   device |-> [ua |-> "Mozilla/5.0 (iPad)", width |-> 1024, height |-> 768, frac |-> {}],
   frac |-> {}]

LoadBody ==
  [trackerId |-> "abcd1234", scrollDepth |-> 0, pageUrl |-> "https://example.com",
   timestamp |-> Time(19675, 80000000), timeOnPage |-> 0,
   device |-> [ua |-> "", width |-> 20000, height |-> 1, frac |-> {}], frac |-> {}]

\* the shape navigator.sendBeacon posts on unload: no scrollDepth key
BeaconBody ==
  [trackerId |-> "abcd1234", pageUrl |-> "https://example.com",
   timestamp |-> Time(19675, 80030000), totalTimeOnPage |-> 30000, maxScrollDepth |-> 100,
   scrollEvents |-> 5,
   engagement |-> [timeOnPage |-> 30000, maxDepth |-> 100, scrollEvents |-> 5,
                   avgScrollSpeed |-> 6000, frac |-> {}],
   frac |-> {}]

SampleBodies ==
  { BaseBody,
    [BaseBody EXCEPT !.trackerId = "ffff0000"],
    [BaseBody EXCEPT !.scrollDepth = 100],
    [BaseBody EXCEPT !.scrollDepth = 150],
    [BaseBody EXCEPT !.scrollDepth = -1],
    [BaseBody EXCEPT !.scrollDepth = 100, !.frac = {"scrollDepth"}],
    [BaseBody EXCEPT !.frac = {"scrollDepth"}],
    [BaseBody EXCEPT !.trackerId = "short"],
    [BaseBody EXCEPT !.pageUrl = "not a url"],
    [BaseBody EXCEPT !.timestamp = Time(0, 0)],
    [BaseBody EXCEPT !.timestamp = Time(MaxDateDays, 0)],
    [BaseBody EXCEPT !.timestamp = Time(MaxDateDays, 1)],
    MilestoneBody,
    [MilestoneBody EXCEPT !.maxScrollDepth = 74, !.frac = {"maxScrollDepth"}],
    [MilestoneBody EXCEPT !.device = [ua |-> "x", width |-> 0, height |-> 768, frac |-> {}]],
    [MilestoneBody EXCEPT !.device = [ua |-> "x", width |-> 20001, height |-> 768, frac |-> {}]],
    LoadBody,
    BeaconBody }

SampleRequests ==
  {[parseable |-> TRUE, body |-> b, xff |-> "203.0.113.7", xreal |-> ""] : b \in SampleBodies}
  \cup {[parseable |-> TRUE, body |-> BaseBody, xff |-> "", xreal |-> "198.51.100.2"],
        [parseable |-> TRUE, body |-> BaseBody, xff |-> "10.0.0.40", xreal |-> "198.51.100.2"],
        [parseable |-> TRUE, body |-> BaseBody, xff |-> "", xreal |-> ""],
        [parseable |-> FALSE, body |-> [frac |-> {}], xff |-> "", xreal |-> ""]}

TrackerIds == {"abcd1234", "ffff0000"}

Requests == 1..MaxReq

(***************************************************************************)
(* POST /api/track.                                                        *)
(***************************************************************************)
\* x || null for a number key: undefined and 0 are falsy
TruthyNum(o, k) == Has(o, k) /\ (o[k] # 0 \/ IsFrac(o, k))

\* x || null for a string key: undefined and "" are falsy
TruthyStr(o, k) == Has(o, k) /\ o[k] # ""

Col(present, name, value) == IF present THEN name :> value ELSE NoObject

\* a || b over the two forwarding headers, without the sentinel
IpAddressNoSentinel(xff, xreal) == IF xff # "" THEN xff ELSE xreal

\* a || b || "unknown" over the two forwarding headers
IpAddress(xff, xreal) == IF xff # "" THEN xff ELSE IF xreal # "" THEN xreal ELSE "unknown"

\* the object handed to .insert(); "frac" lists the columns given a fractional number
InsertValues(b, xff, xreal) ==
  LET dv == IF Has(b, "device") THEN b.device ELSE [frac |-> {}] IN
     [tracker_id |-> b.trackerId, scroll_depth |-> b.scrollDepth, page_url |-> b.pageUrl,
      occurred_at |-> toISOString(b.timestamp), ip_address |-> IpAddress(xff, xreal)]
  @@ Col(TruthyNum(b, "timeOnPage"), "time_on_page", b.timeOnPage)
  @@ Col(TruthyNum(b, "totalTimeOnPage"), "total_time_on_page", b.totalTimeOnPage)
  @@ Col(TruthyNum(b, "maxScrollDepth"), "max_scroll_depth", b.maxScrollDepth)
  @@ Col(TruthyNum(b, "scrollEvents"), "scroll_events_count", b.scrollEvents)
  @@ Col(Has(b, "engagement"), "engagement_data", <<"json", b.engagement>>)
  @@ Col(TruthyStr(dv, "ua"), "ua", dv.ua)
  @@ Col(TruthyNum(dv, "width"), "viewport_w", dv.width)
  @@ Col(TruthyNum(dv, "height"), "viewport_h", dv.height)
  @@ [frac |-> {c \in {"scroll_depth", "max_scroll_depth"} :
                  \/ (c = "scroll_depth" /\ IsFrac(b, "scrollDepth"))
                  \/ (c = "max_scroll_depth" /\ IsFrac(b, "maxScrollDepth"))}]

\* scroll_events without the foreign key on tracker_id
StorageAcceptsNoForeignKey(v, tr) ==
  /\ v.frac = {}
  /\ v.scroll_depth >= 0 /\ v.scroll_depth <= 100
  /\ Has(v, "viewport_w") => (v.viewport_w > 0 /\ v.viewport_w <= 20000)
  /\ Has(v, "viewport_h") => (v.viewport_h > 0 /\ v.viewport_h <= 20000)

\* scroll_events with untyped, unchecked columns
StorageAcceptsForeignKeyOnly(v, tr) == v.tracker_id \in tr

\* the column types, CHECKs and the foreign key of scroll_events
StorageAccepts(v, tr) ==
  /\ v.tracker_id \in tr
  /\ v.frac = {}
  /\ v.scroll_depth >= 0 /\ v.scroll_depth <= 100
  /\ Has(v, "viewport_w") => (v.viewport_w > 0 /\ v.viewport_w <= 20000)
  /\ Has(v, "viewport_h") => (v.viewport_h > 0 /\ v.viewport_h <= 20000)

\* the row as stored: a column per non-NULL value, and in frac the numeric columns whose
\* value is not a whole number (none, as long as the integer column types are enforced)
StoredRow(v) == [c \in DOMAIN v |-> v[c]]

NoBody == NoObject
ServerError == [error |-> "Server error"]
UnknownTracker == [error |-> "Unknown trackerId"]
InvalidPayload == [error |-> "Invalid payload", details |-> "parse.error.flatten()"]

IdleReq ==
  [pc |-> "idle", parseable |-> TRUE, body |-> [frac |-> {}], xff |-> "", xreal |-> "",
   status |-> 0, resp |-> NoBody, storageErr |-> "none", found |-> FALSE, log |-> {}]

Respond(r, st, body, err, msgs) ==
  req' = [req EXCEPT ![r].pc = "done", ![r].status = st, ![r].resp = body,
                     ![r].storageErr = err, ![r].log = @ \cup msgs]

\* request.json() and trackEventSchema.safeParse; invocations are numbered in the order
\* they start
PostParse(r, q) ==
  /\ req[r].pc = "idle"
  /\ \A p \in Requests : p < r => req[p].pc # "idle"
  /\ LET got == [req[r] EXCEPT !.parseable = q.parseable, !.body = q.body,
                               !.xff = q.xff, !.xreal = q.xreal] IN
       IF ~q.parseable
         THEN req' = [req EXCEPT ![r] = [got EXCEPT !.pc = "done", !.status = 500,
                                           !.resp = ServerError,
                                           !.log = {"Error processing track request:"}]]
         ELSE IF ~SchemaOK(q.body)
           THEN req' = [req EXCEPT ![r] = [got EXCEPT !.pc = "done", !.status = 400,
                                             !.resp = InvalidPayload]]
           ELSE req' = [req EXCEPT ![r] = [got EXCEPT !.pc = "lookup"]]
  /\ UNCHANGED <<trackers, scroll_events>>
  /\ UNCHANGED <<scriptVars, dashVars>>

\* the lookup without the test of its result
PostLookupNoCheck(r, fail) ==
  /\ req[r].pc = "lookup"
  /\ IF fail
       THEN Respond(r, 500, ServerError, "lookup", {"Supabase error validating tracker:"})
       ELSE req' = [req EXCEPT ![r].pc = "insert",
                               ![r].found = req[r].body.trackerId \in trackers]
  /\ UNCHANGED <<trackers, scroll_events>>
  /\ UNCHANGED <<scriptVars, dashVars>>

\* the lookup without the test of its error
PostLookupIgnoresError(r, fail) ==
  /\ req[r].pc = "lookup"
  /\ IF fail
       THEN req' = [req EXCEPT ![r].pc = "insert", ![r].storageErr = "lookup"]
       ELSE IF req[r].body.trackerId \notin trackers
         THEN Respond(r, 404, UnknownTracker, "none", {})
         ELSE req' = [req EXCEPT ![r].pc = "insert", ![r].found = TRUE]
  /\ UNCHANGED <<trackers, scroll_events>>
  /\ UNCHANGED <<scriptVars, dashVars>>

\* select id from trackers where id = trackerId, maybeSingle
PostLookup(r, fail) ==
  /\ req[r].pc = "lookup"
  /\ IF fail
       THEN Respond(r, 500, ServerError, "lookup", {"Supabase error validating tracker:"})
       ELSE IF req[r].body.trackerId \notin trackers
         THEN Respond(r, 404, UnknownTracker, "none", {})
         ELSE req' = [req EXCEPT ![r].pc = "insert", ![r].found = TRUE]
  /\ UNCHANGED <<trackers, scroll_events>>
  /\ UNCHANGED <<scriptVars, dashVars>>

\* insert into scroll_events, then the response
PostInsert(r, fail) ==
  /\ req[r].pc = "insert"
  /\ IF ~ValidDate(req[r].body.timestamp)
       THEN /\ Respond(r, 500, ServerError, "none", {"Error processing track request:"})
            /\ UNCHANGED scroll_events
       ELSE LET v == InsertValues(req[r].body, req[r].xff, req[r].xreal) IN
            IF fail \/ ~StorageAccepts(v, trackers)
              THEN /\ Respond(r, 500, ServerError, "insert",
                              {"Supabase error inserting event:"})
                   /\ UNCHANGED scroll_events
              ELSE /\ scroll_events' = Append(scroll_events, StoredRow(v))
                   /\ Respond(r, 204, NoBody, "none", {})
  /\ UNCHANGED trackers
  /\ UNCHANGED <<scriptVars, dashVars>>

\* the storage effect of the dashboard's createTracker: insert into trackers
CreateTracker(t) ==
  /\ t \notin trackers
  /\ trackers' = trackers \cup {t}
  /\ UNCHANGED <<scroll_events, req>>
  /\ UNCHANGED <<scriptVars, dashVars>>

\* the storage effect of the dashboard's deleteTracker: delete from trackers, with
\* ON DELETE CASCADE on scroll_events.tracker_id
DeleteTracker(t) ==
  /\ t \in trackers
  /\ trackers' = trackers \ {t}
  /\ scroll_events' = SelectSeq(scroll_events, LAMBDA e : e.tracker_id # t)
  /\ UNCHANGED req
  /\ UNCHANGED <<scriptVars, dashVars>>

TrackInit ==
  /\ trackers = {}
  /\ scroll_events = <<>>
  /\ req = [r \in Requests |-> IdleReq]

(***************************************************************************)
(* The tracking script (/api/tracker.js), one page view.                   *)
(***************************************************************************)
MILESTONES == <<25, 50, 75, 100>>

Max(a, b) == IF a >= b THEN a ELSE b
Min(a, b) == IF a <= b THEN a ELSE b

SetMax(S) == CHOOSE x \in S : \A y \in S : y <= x

\* Math.round(num / den) for den > 0: the nearest integer, halves towards +infinity
Round(num, den) == (2 * num + den) \div (2 * den)

\* a || b || 0 over numbers: 0 is falsy
OrElse(a, b) == IF a # 0 THEN a ELSE IF b # 0 THEN b ELSE 0

\* what the browser reports when the callback runs
Geom(y, hs, ih) ==
  [pageYOffset |-> y, deScrollTop |-> y, heights |-> hs, innerHeight |-> ih,
   clientHeight |-> ih]

SampleGeoms ==
  { Geom(0, {2000, 1990}, 1000),
    Geom(-50, {2000, 1990}, 1000),
    Geom(125, {2000, 1990}, 1000),
    Geom(250, {2000, 1990}, 1000),
    Geom(500, {2000, 1990}, 1000),
    Geom(745, {2000, 1990}, 1000),
    Geom(1000, {2000, 1990}, 1000),
    Geom(1100, {2000, 1990}, 1000),
    Geom(0, {600}, 1000),
    Geom(3, {600}, 1000),
    [Geom(0, {1600, 1000}, 0) EXCEPT !.deScrollTop = 300, !.clientHeight = 1000] }

getScrollDepth(g) ==
  LET scrollTop == OrElse(g.pageYOffset, g.deScrollTop)
      docHeight == SetMax(g.heights)
      winHeight == OrElse(g.innerHeight, g.clientHeight)
      total == Max(docHeight - winHeight, 1)
  IN  Min(100, Round(scrollTop * 100, total))

StartTime == Time(19675, 80000000)
ClockStep == 6000
\* the page and browser of the page view
Page == [href |-> "https://example.com", userAgent |-> "Mozilla/5.0 (X11; Linux x86_64)",
         innerWidth |-> 1280]

\* the payload post(depth, milestone) builds when the scrollEvents array has n entries;
\* milestone 0 stands for undefined
Payload(id, depth, milestone, t, n, md, ih) ==
     [trackerId |-> id, scrollDepth |-> depth, pageUrl |-> Page.href,
      timestamp |-> TimeAdd(StartTime, t), timeOnPage |-> t,
      device |-> [ua |-> Page.userAgent, width |-> Page.innerWidth, height |-> ih, frac |-> {}]]
  @@ (IF milestone # 0
        THEN [totalTimeOnPage |-> t, maxScrollDepth |-> md, scrollEvents |-> n,
              engagement |-> [timeOnPage |-> t, maxDepth |-> md, scrollEvents |-> n,
                              avgScrollSpeed |-> IF n > 1 THEN t \div n ELSE 0,
                              frac |-> IF n > 1 /\ t % n # 0 THEN {"avgScrollSpeed"} ELSE {}]]
        ELSE NoObject)
  @@ [frac |-> {}]

\* the object the beforeunload handler hands to sendBeacon
engagementData(id, t, n, md) ==
  [trackerId |-> id, pageUrl |-> Page.href, timestamp |-> TimeAdd(StartTime, t),
   totalTimeOnPage |-> t, maxScrollDepth |-> md, scrollEvents |-> n,
   engagement |-> [timeOnPage |-> t, maxDepth |-> md, scrollEvents |-> n,
                   avgScrollSpeed |-> IF n > 1 THEN t \div n ELSE 0,
                   frac |-> IF n > 1 /\ t % n # 0 THEN {"avgScrollSpeed"} ELSE {}],
   frac |-> {}]

Message(via, milestone, payload) == [via |-> via, milestone |-> milestone, payload |-> payload]

\* the loop over MILESTONES without the fired set
CrossedAgain(md, done) == SelectSeq(MILESTONES, LAMBDA m : md >= m)

\* the milestones the loop over MILESTONES fires, in order
Crossed(md, done) == SelectSeq(MILESTONES, LAMBDA m : md >= m /\ m \notin done)

\* a depth that is not the running maximum sends nothing
ExceedsOrRepeats(depth, md) == depth >= md

\* if (depth > maxDepth)
Exceeds(depth, md) == depth > md

\* QP_ID || ATTR_ID || SCRIPT_ID || ''
ResolveId(qp, attr, src) == IF qp # "" THEN qp ELSE IF attr # "" THEN attr ELSE src

IdSources == {"", "abcd1234"}

\* the script without the return after the warning
ScriptStartNoReturn(qp, attr, src, ih) ==
  /\ phase = "init"
  /\ TRACKER_ID' = ResolveId(qp, attr, src)
  /\ warned' = IF TRACKER_ID' = "" THEN warned + 1 ELSE warned
  /\ phase' = "running"
  /\ scrollEvents' = scrollEvents + 1
  /\ sent' = Append(sent, Message("fetch", 0,
               Payload(TRACKER_ID', 0, 0, now, scrollEvents + 1, maxDepth, ih)))
  /\ UNCHANGED <<maxDepth, ticking, fired, now, lastGeom, lastDepth>>
  /\ UNCHANGED <<trackVars, dashVars>>

\* the script from its first line to its last: the tracker id is resolved; without one
\* the script warns and returns, otherwise it posts the load event and registers its
\* listeners

ScriptStart(qp, attr, src, ih) ==
  /\ phase = "init"
  /\ TRACKER_ID' = ResolveId(qp, attr, src)
  /\ IF TRACKER_ID' = ""
       THEN /\ warned' = warned + 1
            /\ phase' = "noid"
            /\ UNCHANGED <<scrollEvents, sent>>
       ELSE /\ phase' = "running"
            /\ scrollEvents' = scrollEvents + 1
            /\ sent' = Append(sent, Message("fetch", 0,
                         Payload(TRACKER_ID', 0, 0, now, scrollEvents + 1, maxDepth, ih)))
            /\ UNCHANGED warned
  /\ UNCHANGED <<maxDepth, ticking, fired, now, lastGeom, lastDepth>>
  /\ UNCHANGED <<trackVars, dashVars>>

\* a scroll, resize or readystatechange event reaches onScroll
OnScroll ==
  /\ phase = "running"
  /\ ~ticking
  /\ ticking' = TRUE
  /\ UNCHANGED <<phase, TRACKER_ID, maxDepth, fired, scrollEvents, now, sent, warned,
                 lastGeom, lastDepth>>
  /\ UNCHANGED <<trackVars, dashVars>>

\* the requestAnimationFrame callback onScroll scheduled
RafCallback(g) ==
  /\ phase = "running"
  /\ ticking
  /\ LET depth == getScrollDepth(g)
         ms == Crossed(depth, fired)
     IN /\ lastGeom' = g
        /\ lastDepth' = depth
        /\ IF Exceeds(depth, maxDepth)
             THEN /\ maxDepth' = depth
                  /\ fired' = fired \cup {ms[i] : i \in 1..Len(ms)}
                  /\ scrollEvents' = scrollEvents + 1 + Len(ms)
                  /\ sent' = sent
                       \o <<Message("fetch", 0, Payload(TRACKER_ID, depth, 0, now,
                                                      scrollEvents + 1, depth, g.innerHeight))>>
                       \o [i \in 1..Len(ms) |->
                             Message("fetch", ms[i], Payload(TRACKER_ID, depth, ms[i], now,
                                        scrollEvents + 1 + i, depth, g.innerHeight))]
             ELSE UNCHANGED <<maxDepth, fired, scrollEvents, sent>>
  /\ ticking' = FALSE
  /\ UNCHANGED <<phase, TRACKER_ID, now, warned>>
  /\ UNCHANGED <<trackVars, dashVars>>

\* Date.now() advances
Tick ==
  /\ phase = "running"
  /\ now < MaxClock * ClockStep
  /\ now' = now + ClockStep
  /\ UNCHANGED <<phase, TRACKER_ID, maxDepth, ticking, fired, scrollEvents, sent, warned,
                 lastGeom, lastDepth>>
  /\ UNCHANGED <<trackVars, dashVars>>

\* the beforeunload handler
Unload ==
  /\ phase = "running"
  /\ phase' = "unloaded"
  /\ sent' = Append(sent, Message("beacon", 0,
                      engagementData(TRACKER_ID, now, scrollEvents, maxDepth)))
  /\ UNCHANGED <<TRACKER_ID, maxDepth, ticking, fired, scrollEvents, now, warned,
                 lastGeom, lastDepth>>
  /\ UNCHANGED <<trackVars, dashVars>>

(***************************************************************************)
(* The dashboard: device classification.                                   *)
(*                                                                         *)
(* A user agent is a string; the regular expressions of getDeviceType test *)
(* it for keywords.  Words gives, for each sample user agent, the words it *)
(* is made of, in order, and a regular expression is evaluated on the      *)
(* lower-cased words: a keyword matches where a word equals it.            *)
(***************************************************************************)
UserAgents ==
  { "Mozilla/5.0 (iPad)",
    "Mozilla/5.0 (IPAD; Mobile)",
    "Mozilla/5.0 (iPhone) Mobile",
    "Mozilla/5.0 (Linux; Android 13) Mobile Safari",
    "Mozilla/5.0 (Linux; Android 13) Safari",
    "Mozilla/5.0 (Windows NT 10.0)" }

Words(ua) ==
  CASE ua = "Mozilla/5.0 (iPad)" -> <<"Mozilla", "iPad">>
    [] ua = "Mozilla/5.0 (IPAD; Mobile)" -> <<"Mozilla", "IPAD", "Mobile">>
    [] ua = "Mozilla/5.0 (iPhone) Mobile" -> <<"Mozilla", "iPhone", "Mobile">>
    [] ua = "Mozilla/5.0 (Linux; Android 13) Mobile Safari" ->
         <<"Mozilla", "Linux", "Android", "Mobile", "Safari">>
    [] ua = "Mozilla/5.0 (Linux; Android 13) Safari" -> <<"Mozilla", "Linux", "Android", "Safari">>
    [] ua = "Mozilla/5.0 (Windows NT 10.0)" -> <<"Mozilla", "Windows">>
    [] OTHER -> <<ua>>

\* String.prototype.toLowerCase on a word
toLowerCase(w) ==
  CASE w = "Mozilla" -> "mozilla"
    [] w = "iPad" -> "ipad"
    [] w = "IPAD" -> "ipad"
    [] w = "iPhone" -> "iphone"
    [] w = "Android" -> "android"
    [] w = "Mobile" -> "mobile"
    [] w = "Linux" -> "linux"
    [] w = "Safari" -> "safari"
    [] w = "Windows" -> "windows"
    [] OTHER -> w

\* /android|webos|iphone|ipad|ipod|blackberry|iemobile|opera mini/i
isMobile(userAgent) ==
  \E i \in 1..Len(userAgent) :
    userAgent[i] \in {"android", "webos", "iphone", "ipad", "ipod", "blackberry",
                      "iemobile", "opera mini"}

\* the tablet test on the user agent alone, without the viewport heuristic
isTabletByAgentOnly(userAgent, viewportW, viewportH) ==
  \E i \in 1..Len(userAgent) :
    \/ userAgent[i] = "ipad"
    \/ userAgent[i] = "android" /\ \A j \in (i + 1)..Len(userAgent) : userAgent[j] # "mobile"

\* /ipad|android(?!.*mobile)/i, or a viewport between 768 and 1024 both ways
isTablet(userAgent, viewportW, viewportH) ==
  \/ \E i \in 1..Len(userAgent) :
       \/ userAgent[i] = "ipad"
       \/ userAgent[i] = "android" /\ \A j \in (i + 1)..Len(userAgent) : userAgent[j] # "mobile"
  \/ (viewportW >= 768 /\ viewportW <= 1024 /\ viewportH >= 768 /\ viewportH <= 1024)

\* the classification with the phone test ahead of the tablet test
getDeviceTypeMobileFirst(ua, viewportW, viewportH) ==
  IF ua = "" THEN "Unknown"
  ELSE LET userAgent == [i \in 1..Len(Words(ua)) |-> toLowerCase(Words(ua)[i])] IN
       IF isMobile(userAgent) THEN "Mobile"
       ELSE IF isTablet(userAgent, viewportW, viewportH) THEN "Tablet"
       ELSE "Desktop"

getDeviceType(ua, viewportW, viewportH) ==
  IF ua = "" THEN "Unknown"
  ELSE LET userAgent == [i \in 1..Len(Words(ua)) |-> toLowerCase(Words(ua)[i])] IN
       IF isTablet(userAgent, viewportW, viewportH) THEN "Tablet"
       ELSE IF isMobile(userAgent) THEN "Mobile"
       ELSE "Desktop"

\* getDeviceType(row.ua || "", row.viewport_w || 0, row.viewport_h || 0)
DeviceTypeOf(row) ==
  getDeviceType(IF Has(row, "ua") THEN row.ua ELSE "",
                IF Has(row, "viewport_w") THEN row.viewport_w ELSE 0,
                IF Has(row, "viewport_h") THEN row.viewport_h ELSE 0)

ViewportSamples == {0, 390, 767, 768, 1024, 1025}

\* the device columns of a row: ua and the viewport sides, each NULL or a value
DeviceRows ==
  { Col(ua # "", "ua", ua) @@ Col(w # 0, "viewport_w", w) @@ Col(h # 0, "viewport_h", h) :
      ua \in UserAgents \cup {""}, w \in ViewportSamples, h \in ViewportSamples }

\* one call of the classification on a row's device columns
ClassifyDevice(row) ==
  /\ deviceRow' = row
  /\ deviceType' = DeviceTypeOf(row)
  /\ UNCHANGED <<events, milestoneStats, engagementStats, trackerId, userStats,
                 isRefreshing, alerts, logged, refresh>>
  /\ UNCHANGED <<trackVars, scriptVars, authVars>>

(***************************************************************************)
(* The dashboard: the loaded event set and the statistics derived from it. *)
(***************************************************************************)
DepthSamples == {20, 25, 50, 60, 75, 100}

\* sample rows of scroll_events as loadEvents selects them, one per depth: a plain scroll
\* event, and milestone events with the engagement columns
EventRow(d) ==
  CASE d = 20 -> [scroll_depth |-> 20, total_time_on_page |-> 5000,
                  ua |-> "Mozilla/5.0 (Windows NT 10.0)",
                  viewport_w |-> 1280, viewport_h |-> 800]
    [] d = 25 -> [scroll_depth |-> 25, total_time_on_page |-> 8000, max_scroll_depth |-> 25,
                  scroll_events_count |-> 2, ua |-> "Mozilla/5.0 (iPad)",
                  viewport_w |-> 1024, viewport_h |-> 768]
    [] d = 50 -> [scroll_depth |-> 50, total_time_on_page |-> 12000, max_scroll_depth |-> 75,
                  scroll_events_count |-> 3,
                  ua |-> "Mozilla/5.0 (Linux; Android 13) Mobile Safari",
                  viewport_w |-> 390, viewport_h |-> 844]
    [] d = 60 -> [scroll_depth |-> 60, total_time_on_page |-> 12000, max_scroll_depth |-> 75,
                  scroll_events_count |-> 4, ua |-> "Mozilla/5.0 (Windows NT 10.0)",
                  viewport_w |-> 1280, viewport_h |-> 800]
    [] d = 75 -> [scroll_depth |-> 75, total_time_on_page |-> 10000, max_scroll_depth |-> 75,
                  viewport_w |-> 800, viewport_h |-> 900]
    [] d = 100 -> [scroll_depth |-> 100, total_time_on_page |-> 30000,
                   max_scroll_depth |-> 100, scroll_events_count |-> 7,
                   ua |-> "Mozilla/5.0 (Windows NT 10.0)",
                   viewport_w |-> 1280, viewport_h |-> 800]

SeqsUpTo(S, n) == UNION {[1..k -> S] : k \in 0..n}

\* the row sets a fetch of scroll_events can return
EventSets == SeqsUpTo({EventRow(d) : d \in DepthSamples}, MaxEvents)

\* the count of events at or below the milestone instead of at or beyond it
CountAtMost(ev, m) == Len(SelectSeq(ev, LAMBDA e : e.scroll_depth <= m))

\* events.filter(e => e.scroll_depth >= m).length
CountAtLeast(ev, m) == Len(SelectSeq(ev, LAMBDA e : e.scroll_depth >= m))

\* the percentage truncated instead of rounded
percFloor(ev, m) == (CountAtLeast(ev, m) * 100) \div (IF Len(ev) # 0 THEN Len(ev) ELSE 1)

\* perc(m), with total = events.length || 1
perc(ev, m) == Round(CountAtLeast(ev, m) * 100, IF Len(ev) # 0 THEN Len(ev) ELSE 1)

\* the statistics with a total that runs on from the set loaded before
MilestoneStatsRunningTotal(ev) ==
  [p25 |-> perc(ev, 25), p50 |-> perc(ev, 50), p75 |-> perc(ev, 75), p100 |-> perc(ev, 100),
   total |-> Len(events) + Len(ev)]

MilestoneStats(ev) ==
  [p25 |-> perc(ev, 25), p50 |-> perc(ev, 50), p75 |-> perc(ev, 75), p100 |-> perc(ev, 100),
   total |-> Len(ev)]

\* a column used as a condition: NULL and 0 are falsy
Truthy(row, c) == Has(row, c) /\ row[c] # 0

\* row.c || 0
ColOrZero(row, c) == IF Has(row, c) THEN row[c] ELSE 0

\* `${total_time_on_page}-${max_scroll_depth}`: two non-negative integers joined by a
\* dash, equal for two rows exactly when both numbers are
SessionKey(e) == <<e.total_time_on_page, e.max_scroll_depth>>

\* the Map with every row stored under its key, so that the last row of a key stays
RECURSIVE uniqueSessionsLast(_, _)
uniqueSessionsLast(sessions, keys) ==
  IF sessions = <<>> THEN <<>>
  ELSE IF \E j \in 2..Len(sessions) : SessionKey(sessions[j]) = SessionKey(Head(sessions))
    THEN uniqueSessionsLast(Tail(sessions), keys)
    ELSE <<Head(sessions)>> \o uniqueSessionsLast(Tail(sessions), keys)

\* the values of the Map filled by sessions.forEach: the first row of each key, in order
RECURSIVE uniqueSessions(_, _)
uniqueSessions(sessions, keys) ==
  IF sessions = <<>> THEN <<>>
  ELSE IF SessionKey(Head(sessions)) \in keys
    THEN uniqueSessions(Tail(sessions), keys)
    ELSE <<Head(sessions)>>
         \o uniqueSessions(Tail(sessions), keys \cup {SessionKey(Head(sessions))})

RECURSIVE Sum(_)
Sum(s) == IF s = <<>> THEN 0 ELSE Head(s) + Sum(Tail(s))

RECURSIVE Product(_)
Product(s) == IF s = <<>> THEN 1 ELSE Head(s) * Product(Tail(s))

IsComplete(s) == s.max_scroll_depth >= 100

\* the time test of an active session with >= in place of >
IsActiveFromTen(s) == s.max_scroll_depth >= 75 /\ ColOrZero(s, "total_time_on_page") >= 10000

IsActive(s) == s.max_scroll_depth >= 75 /\ ColOrZero(s, "total_time_on_page") > 10000

\* avgTime, completionRate and activeRate of a non-empty list of sessions
Rates(ss) ==
  [avgTime |-> Round(Sum([i \in 1..Len(ss) |-> ColOrZero(ss[i], "total_time_on_page")]),
                     Len(ss) * 1000),
   completionRate |-> Round(Len(SelectSeq(ss, IsComplete)) * 100, Len(ss)),
   activeRate |-> Round(Len(SelectSeq(ss, IsActive)) * 100, Len(ss))]

\* Math.round of the mean of total_time_on_page / scroll_events_count (0 for a session
\* without a count), computed over the common denominator of the quotients
AvgScrollSpeed(ss) ==
  LET counted(s) == Truthy(s, "scroll_events_count") /\ Truthy(s, "total_time_on_page")
      den == Product([i \in 1..Len(ss) |->
                        IF counted(ss[i]) THEN ss[i].scroll_events_count ELSE 1])
      num == Sum([i \in 1..Len(ss) |->
                    IF counted(ss[i])
                      THEN ss[i].total_time_on_page * (den \div ss[i].scroll_events_count)
                      ELSE 0])
  IN  Round(num, den * Len(ss))

NoDeviceStats == [sessions |-> 0, avgTime |-> 0, completionRate |-> 0, activeRate |-> 0]

NoEngagement ==
  [avgTimeOnPage |-> 0, scrollCompletionRate |-> 0, activeScrollRate |-> 0,
   totalSessions |-> 0, avgScrollSpeed |-> 0,
   deviceStats |-> [desktop |-> NoDeviceStats, mobile |-> NoDeviceStats,
                    tablet |-> NoDeviceStats]]

\* sessionData.forEach: a session is pushed to deviceGroups[getDeviceType(..)] when the
\* object has that key, which takes the two spellings of the type to agree
RECURSIVE deviceGroups(_, _)
deviceGroups(sessionData, groups) ==
  IF sessionData = <<>> THEN groups
  ELSE LET deviceType_ == DeviceTypeOf(Head(sessionData)) IN
       deviceGroups(Tail(sessionData),
                    IF deviceType_ \in DOMAIN groups
                      THEN [groups EXCEPT ![deviceType_] = Append(@, Head(sessionData))]
                      ELSE groups)

DeviceStats(sessionData) ==
  LET groups == deviceGroups(sessionData, [desktop |-> <<>>, mobile |-> <<>>, tablet |-> <<>>])
  IN  [k \in {"desktop", "mobile", "tablet"} |->
         IF Len(groups[k]) > 0
           THEN [sessions |-> Len(groups[k])] @@ Rates(groups[k])
           ELSE NoDeviceStats]

EngagementStats(ev) ==
  IF Len(ev) = 0 THEN NoEngagement
  ELSE LET sessions == SelectSeq(ev, LAMBDA e : Truthy(e, "total_time_on_page")
                                                /\ Truthy(e, "max_scroll_depth"))
           sessionData == uniqueSessions(sessions, {})
           overall == Rates(sessionData)
       IN  IF Len(sessionData) = 0 THEN NoEngagement
           ELSE [avgTimeOnPage |-> overall.avgTime,
                 scrollCompletionRate |-> overall.completionRate,
                 activeScrollRate |-> overall.activeRate,
                 totalSessions |-> Len(sessionData),
                 avgScrollSpeed |-> AvgScrollSpeed(sessionData),
                 deviceStats |-> DeviceStats(sessionData)]

(***************************************************************************)
(* The dashboard: the active users of the last 24 hours.                   *)
(***************************************************************************)
\* the UTF-16 code units of the sample addresses (String.prototype.split(""))
CharCodes(ip) ==
  CASE ip = "203.0.113.7" -> <<50, 48, 51, 46, 48, 46, 49, 49, 51, 46, 55>>
    [] ip = "198.51.100.2" -> <<49, 57, 56, 46, 53, 49, 46, 49, 48, 48, 46, 50>>
    [] ip = "10.0.0.40" -> <<49, 48, 46, 48, 46, 48, 46, 52, 48>>
    [] ip = "unknown" -> <<117, 110, 107, 110, 111, 119, 110>>

\* a 32-bit integer as its two 16-bit halves, hi * 65536 + lo modulo 2^32
Int32(hi, lo) == [hi |-> hi, lo |-> lo]

\* a = (a << 5) - a + c; a & a: 31 * a + c wrapped to 32 bits
hashStep(a, c) ==
  LET lo == a.lo * 31 + c
      hi == a.hi * 31 + (lo \div 65536)
  IN  Int32(hi % 65536, lo % 65536)

RECURSIVE ipHash(_, _)
ipHash(chars, a) == IF chars = <<>> THEN a ELSE ipHash(Tail(chars), hashStep(a, Head(chars)))

\* Math.abs(ipHash) % 100; a value with hi >= 32768 is negative, and 65536 = 36 mod 100
AbsMod100(a) ==
  IF a.hi >= 32768
    THEN ((65536 - a.hi) * 36 + 6553600 - a.lo) % 100
    ELSE (a.hi * 36 + a.lo) % 100

countries ==
  << [code |-> "US", name |-> "United States", weight |-> 20],
     [code |-> "IN", name |-> "India", weight |-> 18],
     [code |-> "CN", name |-> "China", weight |-> 15],
     [code |-> "NP", name |-> "Nepal", weight |-> 15],
     [code |-> "GB", name |-> "United Kingdom", weight |-> 8],
     [code |-> "DE", name |-> "Germany", weight |-> 6],
     [code |-> "CA", name |-> "Canada", weight |-> 5],
     [code |-> "AU", name |-> "Australia", weight |-> 4],
     [code |-> "FR", name |-> "France", weight |-> 3],
     [code |-> "JP", name |-> "Japan", weight |-> 2] >>

\* the loop over countries keeping the last country when no cumulative weight exceeds
\* random
selectedCountryLast(random) ==
  LET cumulativeWeight(i) == Sum([j \in 1..i |-> countries[j].weight])
      hit == {i \in 1..Len(countries) : random < cumulativeWeight(i)}
  IN  IF hit = {} THEN countries[Len(countries)]
      ELSE countries[CHOOSE i \in hit : \A j \in hit : i <= j]

\* the loop over countries: the first whose cumulative weight exceeds random, and
\* countries[0] when none does
selectedCountry(random) ==
  LET cumulativeWeight(i) == Sum([j \in 1..i |-> countries[j].weight])
      hit == {i \in 1..Len(countries) : random < cumulativeWeight(i)}
  IN  IF hit = {} THEN countries[1]
      ELSE countries[CHOOSE i \in hit : \A j \in hit : i <= j]

\* the entry uniqueUsers.set stores for the first row of an address
UserEntry(event) ==
  LET country == selectedCountry(AbsMod100(ipHash(CharCodes(event.ip_address), Int32(0, 0))))
  IN  [ip |-> event.ip_address, country |-> country.code, countryName |-> country.name,
       lastSeen |-> event.occurred_at,
       avatar |-> <<"https://api.dicebear.com/7.x/avataaars/svg?seed=", event.ip_address>>,
       deviceType |-> DeviceTypeOf(event)]

\* Array.from(uniqueUsers.values()): one entry per address, from its first row
RECURSIVE uniqueUsers(_, _)
uniqueUsers(data, seen) ==
  IF data = <<>> THEN <<>>
  ELSE IF Head(data).ip_address \in seen
    THEN uniqueUsers(Tail(data), seen)
    ELSE <<UserEntry(Head(data))>>
         \o uniqueUsers(Tail(data), seen \cup {Head(data).ip_address})

\* event.ip_address.split("") on a row whose ip_address is NULL throws a TypeError
SplitThrows(data) == \E i \in 1..Len(data) : ~Has(data[i], "ip_address")

\* sample answers to the query of loadUserStats, newest row first
UserStatSets ==
  { << [ip_address |-> "203.0.113.7", occurred_at |-> toISOString(Time(19675, 80030000)),
        ua |-> "Mozilla/5.0 (iPad)", viewport_w |-> 1024, viewport_h |-> 768],
       [ip_address |-> "10.0.0.40", occurred_at |-> toISOString(Time(19675, 80012000)),
        ua |-> "Mozilla/5.0 (Windows NT 10.0)", viewport_w |-> 1280, viewport_h |-> 800],
       [ip_address |-> "203.0.113.7", occurred_at |-> toISOString(Time(19675, 80000000)),
        ua |-> "Mozilla/5.0 (Windows NT 10.0)", viewport_w |-> 1280, viewport_h |-> 800] >>,
    << [ip_address |-> "198.51.100.2", occurred_at |-> toISOString(Time(19675, 80030000)),
        ua |-> "Mozilla/5.0 (iPhone) Mobile", viewport_w |-> 390, viewport_h |-> 844],
       [occurred_at |-> toISOString(Time(19675, 80012000))] >>,
    << [ip_address |-> "unknown", occurred_at |-> toISOString(Time(19675, 80030000))],
       [ip_address |-> "198.51.100.2", occurred_at |-> toISOString(Time(19675, 80012000)),
        ua |-> "Mozilla/5.0 (iPhone) Mobile", viewport_w |-> 390, viewport_h |-> 844] >> }

\* sample answers to the query of loadEvents, oldest row first
RefreshEventSets ==
  { <<EventRow(25), EventRow(100)>>, <<EventRow(20), EventRow(60), EventRow(100)>> }

(***************************************************************************)
(* The dashboard: refreshing.                                              *)
(***************************************************************************)
Users == {"alice", "bob"}

\* sample answers to the trackers query of a user, newest tracker first
TrackerRows(user) ==
  CASE user = "alice" -> <<"abcd1234", "ffff0000">>
    [] user = "bob" -> <<"0123456789abcdef">>

Range(seq) == {seq[i] : i \in 1..Len(seq)}

\* a call of loadTrackers: the user it queries for and what !trackerId gives in its
\* closure
Load(user, id) == [user |-> user, noTracker |-> id = ""]

\* the auth callback (getSession's answer or onAuthStateChange): setSession, then the
\* effect on [session, trackerId]: setTrackers([]) without a user, else loadTrackers()
AuthChange(user) ==
  /\ user # session
  /\ session' = user
  /\ IF user = ""
       THEN trackerList' = <<>> /\ loads' = loads
       ELSE trackerList' = trackerList /\ loads' = loads \cup {Load(user, trackerId)}
  /\ UNCHANGED <<events, milestoneStats, engagementStats, trackerId, userStats, isRefreshing,
                 alerts, logged, refresh, deviceRow, deviceType>>
  /\ UNCHANGED <<trackVars, scriptVars>>

\* the answer to the query of a loadTrackers call arrives: setTrackers(data), and
\* setTrackerId(data[0].id) when the call's closure holds no trackerId; a changed
\* trackerId runs the effect on [session, trackerId] again
TrackersArrive(l, error) ==
  /\ l \in loads
  /\ IF error
       THEN /\ loads' = loads \ {l}
            /\ UNCHANGED <<trackerList, trackerId>>
       ELSE LET data == TrackerRows(l.user)
                id == IF data # <<>> /\ l.noTracker THEN data[1] ELSE trackerId
            IN  /\ trackerId' = id
                /\ trackerList' = IF id # trackerId /\ session = "" THEN <<>> ELSE data
                /\ loads' = (loads \ {l}) \cup
                            (IF id # trackerId /\ session # "" THEN {Load(session, id)} ELSE {})
  /\ UNCHANGED <<events, milestoneStats, engagementStats, userStats, isRefreshing, alerts,
                 logged, refresh, session, deviceRow, deviceType>>
  /\ UNCHANGED <<trackVars, scriptVars>>

\* the tracker select's onChange: setTrackerId(e.target.value); the select is rendered
\* for a signed-in user and offers the listed trackers; the changed trackerId runs the
\* effect on [session, trackerId] again
SelectTracker(t) ==
  /\ session # "" /\ t \in Range(trackerList)
  /\ t # trackerId
  /\ trackerId' = t
  /\ loads' = loads \cup {Load(session, t)}
  /\ UNCHANGED <<events, milestoneStats, engagementStats, userStats, isRefreshing, alerts,
                 logged, refresh, session, trackerList, deviceRow, deviceType>>
  /\ UNCHANGED <<trackVars, scriptVars>>

\* loadEvents after its await, with setEvents run on an error as well
loadEventsResolvedClearing(data, error) ==
  /\ alerts' = IF error THEN alerts + 1 ELSE alerts
  /\ events' = IF error THEN <<>> ELSE data
  /\ milestoneStats' = MilestoneStats(events')
  /\ engagementStats' = EngagementStats(events')

\* loadEvents after its await: an error is shown with alert and the state is left alone,
\* otherwise setEvents(data || []) and the render that follows recomputes the memoised
\* statistics
loadEventsResolved(data, error) ==
  IF error
    THEN /\ alerts' = alerts + 1
         /\ UNCHANGED <<events, milestoneStats, engagementStats>>
    ELSE /\ events' = data
         /\ milestoneStats' = MilestoneStats(data)
         /\ engagementStats' = EngagementStats(data)
         /\ UNCHANGED alerts

\* loadUserStats after its await: an error is written to the console and the state is
\* left alone; a row without an address makes the loop throw before setUserStats
loadUserStatsResolved(data, error) ==
  IF error
    THEN /\ logged' = logged + 1
         /\ UNCHANGED userStats
    ELSE /\ userStats' = IF SplitThrows(data) THEN userStats ELSE uniqueUsers(data, {})
         /\ UNCHANGED logged

\* one call of loadEvents from start to end, no other call in flight
LoadEvents(data, error) ==
  /\ trackerId # ""
  /\ loadEventsResolved(data, error)
  /\ UNCHANGED <<trackerId, userStats, isRefreshing, logged, refresh, deviceRow, deviceType>>
  /\ UNCHANGED <<trackVars, scriptVars, authVars>>

Refreshes == 1..MaxRefresh

IdleRefresh == [pc |-> "idle", trackerId |-> "", ev |-> "none", evData |-> <<>>, us |-> "none"]

\* a refresh starts, from the 10-second interval (which exists while a tracker is
\* selected) or from the Refresh button (rendered for a signed-in user, disabled while
\* isRefreshing):
\* setIsRefreshing(true) and both loads are called; without a tracker both return at once
\* and setIsRefreshing(false) follows.  Refreshes are numbered in the order they start.
StartRefresh(s, via) ==
  /\ refresh[s].pc = "idle"
  /\ \A p \in Refreshes : p < s => refresh[p].pc # "idle"
  /\ via = "timer" => trackerId # ""
  /\ via = "button" => (session # "" /\ ~isRefreshing)
  /\ IF trackerId = ""
       THEN /\ refresh' = [refresh EXCEPT ![s].pc = "settled"]
            /\ isRefreshing' = FALSE
       ELSE /\ refresh' = [refresh EXCEPT ![s] = [pc |-> "awaiting", trackerId |-> trackerId,
                                                    ev |-> "pending", evData |-> <<>>,
                                                    us |-> "pending"]]
            /\ isRefreshing' = TRUE
  /\ UNCHANGED <<events, milestoneStats, engagementStats, trackerId, userStats, alerts,
                 logged, deviceRow, deviceType>>
  /\ UNCHANGED <<trackVars, scriptVars, authVars>>

\* Promise.all has resolved: both loads of the refresh are over and neither threw
Settled(r) == r.ev \in {"ok", "error"} /\ r.us \in {"ok", "error"}

\* the continuation after await Promise.all: setIsRefreshing(false)
AfterLoad(s, after) ==
  /\ refresh' = [refresh EXCEPT ![s] = [after EXCEPT !.pc = IF Settled(after) THEN "settled"
                                                           ELSE after.pc]]
  /\ isRefreshing' = IF Settled(after) THEN FALSE ELSE isRefreshing

\* the answer to loadEvents applied only when no later refresh has started
EventsArriveLatestOnly(s, data, error) ==
  /\ refresh[s].ev = "pending"
  /\ IF \E p \in Refreshes : p > s /\ refresh[p].pc # "idle"
       THEN UNCHANGED <<events, milestoneStats, engagementStats, alerts>>
       ELSE loadEventsResolved(data, error)
  /\ AfterLoad(s, [refresh[s] EXCEPT !.ev = IF error THEN "error" ELSE "ok",
                                     !.evData = IF error THEN <<>> ELSE data])
  /\ UNCHANGED <<trackerId, userStats, logged, deviceRow, deviceType>>
  /\ UNCHANGED <<trackVars, scriptVars, authVars>>

\* the answer to the loadEvents query of refresh s arrives
EventsArrive(s, data, error) ==
  /\ refresh[s].ev = "pending"
  /\ loadEventsResolved(data, error)
  /\ AfterLoad(s, [refresh[s] EXCEPT !.ev = IF error THEN "error" ELSE "ok",
                                     !.evData = IF error THEN <<>> ELSE data])
  /\ UNCHANGED <<trackerId, userStats, logged, deviceRow, deviceType>>
  /\ UNCHANGED <<trackVars, scriptVars, authVars>>

\* the answer to the loadUserStats query of refresh s arrives; when the loop throws,
\* Promise.all rejects and the refresh never reaches setIsRefreshing(false)
UserStatsArrive(s, data, error) ==
  /\ refresh[s].us = "pending"
  /\ loadUserStatsResolved(data, error)
  /\ IF ~error /\ SplitThrows(data)
       THEN /\ refresh' = [refresh EXCEPT ![s].us = "threw", ![s].pc = "rejected"]
            /\ UNCHANGED isRefreshing
       ELSE AfterLoad(s, [refresh[s] EXCEPT !.us = IF error THEN "error" ELSE "ok"])
  /\ UNCHANGED <<events, milestoneStats, engagementStats, trackerId, alerts, deviceRow,
                 deviceType>>
  /\ UNCHANGED <<trackVars, scriptVars, authVars>>

ScriptIdle ==
  /\ phase = "init" /\ TRACKER_ID = "" /\ maxDepth = 0 /\ ticking = FALSE /\ fired = {}
  /\ scrollEvents = 0 /\ now = 0 /\ sent = <<>> /\ warned = 0
  /\ lastGeom = Geom(0, {600}, 1000) /\ lastDepth = 0

DashIdle ==
  /\ events = <<>>
  /\ milestoneStats = MilestoneStats(<<>>)
  /\ engagementStats = EngagementStats(<<>>)
  /\ trackerId = "" /\ userStats = <<>> /\ isRefreshing = FALSE
  /\ alerts = 0 /\ logged = 0
  /\ refresh = [s \in Refreshes |-> IdleRefresh]
  /\ session = "" /\ trackerList = <<>> /\ loads = {}
  /\ deviceRow = NoObject /\ deviceType = ""

(***************************************************************************)
(* The ingestion endpoint with trackers created and deleted concurrently.  *)
(***************************************************************************)
Init == TrackInit /\ ScriptIdle /\ DashIdle

Next ==
  \/ \E r \in Requests, q \in SampleRequests : PostParse(r, q)
  \/ \E r \in Requests, fail \in BOOLEAN : PostLookup(r, fail)
  \/ \E r \in Requests, fail \in BOOLEAN : PostInsert(r, fail)
  \/ \E t \in TrackerIds : CreateTracker(t)
  \/ \E t \in TrackerIds : DeleteTracker(t)

Spec == Init /\ [][Next]_vars

(***************************************************************************)
(* One page view of the tracking script.                                   *)
(***************************************************************************)
ScriptNext ==
  \/ \E qp \in IdSources, attr \in IdSources, src \in IdSources :
       ScriptStart(qp, attr, src, lastGeom.innerHeight)
  \/ OnScroll
  \/ \E g \in SampleGeoms : RafCallback(g)
  \/ Tick
  \/ Unload

SpecScript == Init /\ [][ScriptNext]_vars

(***************************************************************************)
(* The dashboard of a user who signs in and loads one event set.           *)
(***************************************************************************)
DashNext ==
  \/ AuthChange("alice")
  \/ \E l \in loads : TrackersArrive(l, FALSE)
  \/ events = <<>> /\ \E data \in EventSets : LoadEvents(data, FALSE)

SpecDash == Init /\ [][DashNext]_vars

(***************************************************************************)
(* The dashboard refreshing, with refreshes that overlap.                  *)
(***************************************************************************)
RefreshNext ==
  \/ AuthChange("alice")
  \/ \E l \in loads : TrackersArrive(l, FALSE)
  \/ \E t \in TrackerIds : SelectTracker(t)
  \/ \E s \in Refreshes, via \in {"timer", "button"} : StartRefresh(s, via)
  \/ \E s \in Refreshes, data \in RefreshEventSets, error \in BOOLEAN :
       EventsArrive(s, data, error)
  \/ \E s \in Refreshes, data \in UserStatSets, error \in BOOLEAN :
       UserStatsArrive(s, data, error)

SpecRefresh == Init /\ [][RefreshNext]_vars

(***************************************************************************)
(* The device classification applied to rows.                              *)
(***************************************************************************)
DeviceNext == \E row \in DeviceRows : ClassifyDevice(row)

SpecDevice == Init /\ [][DeviceNext]_vars

(***************************************************************************)
(* The dashboard across sign-in, sign-out and a change of user, with the   *)
(* tracker list loading and refreshes in flight.                           *)
(***************************************************************************)
AuthEventSets == {<<EventRow(25), EventRow(100)>>}

AuthUserSets == {d \in UserStatSets : ~SplitThrows(d) /\ Len(d) = 3}

AuthNext ==
  \/ \E user \in Users \cup {""} : AuthChange(user)
  \/ \E l \in loads, error \in BOOLEAN : TrackersArrive(l, error)
  \/ \E t \in TrackerIds \cup Range(TrackerRows("bob")) : SelectTracker(t)
  \/ \E s \in Refreshes, via \in {"timer", "button"} : StartRefresh(s, via)
  \/ \E s \in Refreshes, data \in AuthEventSets : EventsArrive(s, data, FALSE)
  \/ \E s \in Refreshes, data \in AuthUserSets : UserStatsArrive(s, data, FALSE)

SpecAuth == Init /\ [][AuthNext]_vars

(***************************************************************************)
(* The ingestion contract as the specification words it (section 4.2),     *)
(* used to state the claims independently of trackEventSchema.             *)
(***************************************************************************)
InRange(o, k, lo, hi) == o[k] >= lo /\ (IF IsFrac(o, k) THEN o[k] < hi ELSE o[k] <= hi)

ContractConforms(b) ==
  /\ Has(b, "trackerId") /\ Len(b.trackerId) \in 8..64
  /\ Has(b, "scrollDepth") /\ InRange(b, "scrollDepth", 0, 100)
  /\ Has(b, "pageUrl") /\ b.pageUrl \in WellFormedUrls
  /\ Has(b, "timestamp") /\ ~IsFrac(b, "timestamp") /\ TimePositive(b.timestamp)
  /\ Has(b, "device") =>
       /\ Has(b.device, "width") => (~IsFrac(b.device, "width") /\ b.device.width \in 1..20000)
       /\ Has(b.device, "height") => (~IsFrac(b.device, "height") /\ b.device.height \in 1..20000)

\* request r's handler takes its last step
Finishes(r) == req[r].pc # "done" /\ req'[r].pc = "done"

\* C1: every schema-valid POST whose tracker the lookup finds, with no storage failure,
\* is answered 204 with no body and appends exactly one row carrying the request's
\* trackerId and scrollDepth, each request independently (no deduplication).
C1_ValidPostStoresOneRow ==
  [][\A r \in Requests :
       (/\ Finishes(r)
        /\ req'[r].parseable /\ ContractConforms(req'[r].body)
        /\ req'[r].found /\ req'[r].storageErr = "none")
       => /\ req'[r].status = 204 /\ req'[r].resp = NoBody
          /\ Len(scroll_events') = Len(scroll_events) + 1
          /\ SubSeq(scroll_events', 1, Len(scroll_events)) = scroll_events
          /\ scroll_events'[Len(scroll_events')].tracker_id = req'[r].body.trackerId
          /\ scroll_events'[Len(scroll_events')].scroll_depth = req'[r].body.scrollDepth]_vars

\* C2: a parseable body that violates the schema (scrollDepth below 0 or above 100, ...)
\* is answered 400 by the handler's first step; the handler takes no other step, uses no
\* tracker lookup and leaves both tables unchanged.
C2_InvalidBodyRejected ==
  [][\A r \in Requests :
       (req'[r].pc # req[r].pc /\ req'[r].parseable /\ ~ContractConforms(req'[r].body))
       => /\ req[r].pc = "idle" /\ req'[r].pc = "done"
          /\ req'[r].status = 400 /\ req'[r].resp = InvalidPayload
          /\ ~req'[r].found
          /\ scroll_events' = scroll_events /\ trackers' = trackers]_vars

C2_Witness ==
  \E r \in Requests :
    /\ req[r].pc = "done" /\ req[r].status = 400
    /\ Has(req[r].body, "scrollDepth") /\ req[r].body.scrollDepth = 150
    /\ trackers # {}

\* request r's lookup runs while its trackerId is not in the trackers table
LooksUpUnregistered(r) ==
  req[r].pc = "lookup" /\ req'[r].pc # "lookup" /\ req[r].body.trackerId \notin trackers

\* C3 as stated: a valid body whose trackerId is not registered when it is looked up
\* always gets 404 {error: "Unknown trackerId"} and inserts no row.
C3_UnregisteredAlways404 ==
  [][\A r \in Requests :
       LooksUpUnregistered(r)
       => /\ req'[r].pc = "done"
          /\ req'[r].status = 404 /\ req'[r].resp = UnknownTracker
          /\ scroll_events' = scroll_events]_vars

\* C3 amended: a valid body whose trackerId is not registered when it is looked up gets
\* 404 {error: "Unknown trackerId"} unless the lookup itself fails in storage, which gets
\* 500 {error: "Server error"}; either way the handler ends there and inserts no row,
\* whatever trackers are created or deleted around it.
C3_Unregistered404UnlessLookupFails ==
  [][\A r \in Requests :
       /\ LooksUpUnregistered(r)
          => /\ req'[r].pc = "done"
             /\ scroll_events' = scroll_events
             /\ req'[r].storageErr \in {"none", "lookup"}
             /\ req'[r].storageErr = "none" =>
                  (req'[r].status = 404 /\ req'[r].resp = UnknownTracker)
             /\ req'[r].storageErr = "lookup" =>
                  (req'[r].status = 500 /\ req'[r].resp = ServerError)
       /\ (req[r].pc = "done" /\ req[r].status = 404) => req'[r] = req[r]]_vars

C3_Witness ==
  \E r \in Requests :
    /\ req[r].pc = "done" /\ req[r].status = 404 /\ req[r].resp = UnknownTracker
    /\ req[r].body.trackerId \in trackers
    /\ scroll_events = <<>>

\* C5: a client-input failure (a body that is not parseable JSON, or one that violates
\* the schema) is answered with a four-hundred-class status and logs no server error,
\* and a 500 comes only from a storage failure.
C5_ClientErrorsAre4xx ==
  \A r \in Requests :
    req[r].pc = "done" =>
      /\ (~req[r].parseable \/ ~ContractConforms(req[r].body))
           => (req[r].status \in 400..499 /\ req[r].log = {})
      /\ req[r].status = 500 => req[r].storageErr # "none"

\* C6: when the tracker lookup or the insert fails in storage the response is 500 with
\* exactly {error: "Server error"}; a failed lookup ends the handler before any insert,
\* and a failed insert adds no row.
C6_StorageFailureIs500 ==
  [][\A r \in Requests :
       (req'[r].storageErr # "none" /\ req[r].storageErr = "none")
       => /\ req'[r].pc = "done"
          /\ req'[r].status = 500 /\ req'[r].resp = [error |-> "Server error"]
          /\ scroll_events' = scroll_events
          /\ req'[r].storageErr = "lookup" => req[r].pc = "lookup"
          /\ req'[r].storageErr = "insert" => req[r].pc = "insert"]_vars

C6_Witness ==
  \E r, p \in Requests :
    /\ req[r].pc = "done" /\ req[r].storageErr = "insert" /\ req[r].status = 500
    /\ req[r].body.trackerId \in trackers
    /\ req[p].pc = "done" /\ req[p].storageErr = "lookup" /\ req[p].status = 500
    /\ scroll_events = <<>>

(***************************************************************************)
(* Claims about the tracking script, under SpecScript.                     *)
(***************************************************************************)
Sent == 1..Len(sent)

\* C4: every event the script sends (load, new maximum, milestone, final unload beacon)
\* conforms to the ingestion schema.
C4_SentConformsToSchema == \A i \in Sent : SchemaOK(sent[i].payload)

HasEngagementFields(b) ==
  /\ Has(b, "totalTimeOnPage") /\ Has(b, "maxScrollDepth")
  /\ Has(b, "scrollEvents") /\ Has(b, "engagement")

MilestoneEvents(m) == {i \in Sent : sent[i].milestone = m}

\* C7: in every state of a page view, each milestone the running maximum has reached has
\* exactly one milestone event, carrying the session engagement fields and the running
\* maximum of the callback that first reached it, and each milestone not yet reached
\* has none.
C7_MilestoneExactlyOnce ==
  \A k \in 1..Len(MILESTONES) :
    LET m == MILESTONES[k] IN
      /\ Cardinality(MilestoneEvents(m)) = (IF maxDepth >= m THEN 1 ELSE 0)
      /\ \A i \in MilestoneEvents(m) :
           /\ HasEngagementFields(sent[i].payload)
           /\ sent[i].payload.maxScrollDepth >= m

C7_Witness ==
  /\ fired = {25, 50}
  /\ Cardinality(MilestoneEvents(25)) = 1 /\ Cardinality(MilestoneEvents(50)) = 1
  /\ \E i \in MilestoneEvents(25), j \in MilestoneEvents(50) :
       sent[i].payload.scrollDepth < sent[j].payload.scrollDepth
  /\ lastDepth < maxDepth
  /\ ~ticking

\* the new-maximum events: fetch posts without a milestone, after the load event
NewMaxEvents(s) == {i \in 2..Len(s) : s[i].via = "fetch" /\ s[i].milestone = 0}

\* C8: the running maximum never decreases; a processed callback sends a new-maximum
\* event iff the depth it computed is strictly greater than the running maximum, that
\* event carries the new running maximum, and it is strictly deeper than every earlier
\* new-maximum event of the page view.
C8_NewMaximumEvents ==
  [][/\ maxDepth' >= maxDepth
     /\ (ticking /\ ~ticking') =>
          LET new == NewMaxEvents(sent') \ NewMaxEvents(sent) IN
            /\ (lastDepth' > maxDepth) <=> (new # {})
            /\ Cardinality(new) <= 1
            /\ \A i \in new :
                 /\ sent'[i].payload.scrollDepth = maxDepth'
                 /\ maxDepth' = lastDepth'
                 /\ \A j \in NewMaxEvents(sent) :
                      sent[j].payload.scrollDepth < sent'[i].payload.scrollDepth
     /\ ~(ticking /\ ~ticking') => NewMaxEvents(sent') = NewMaxEvents(sent)]_vars

C8_Witness ==
  /\ Cardinality(NewMaxEvents(sent)) = 3
  /\ lastDepth = maxDepth
  /\ maxDepth = 100
  /\ \E i \in NewMaxEvents(sent) : sent[i].payload.scrollDepth = 13

\* C9: for every scroll position and page geometry the computed depth equals
\* round(scrollTop / max(docHeight - viewportHeight, 1) * 100) clamped to [0,100], so it
\* is never below 0 and never above 100.  With x = 100 * top / span: the result is 0
\* when x < 1/2, 100 when x >= 99 1/2, and otherwise the n with n - 1/2 <= x < n + 1/2.
C9_DepthClamped ==
  LET top == IF lastGeom.pageYOffset # 0 THEN lastGeom.pageYOffset ELSE lastGeom.deScrollTop
      win == IF lastGeom.innerHeight # 0 THEN lastGeom.innerHeight ELSE lastGeom.clientHeight
      span == IF SetMax(lastGeom.heights) - win >= 1 THEN SetMax(lastGeom.heights) - win ELSE 1
  IN  /\ lastDepth \in 0..100
      /\ 200 * top < span => lastDepth = 0
      /\ 200 * top >= 199 * span => lastDepth = 100
      /\ (200 * top >= span /\ 200 * top < 199 * span) =>
           /\ 2 * span * lastDepth <= 200 * top + span
           /\ 200 * top + span < 2 * span * (lastDepth + 1)

\* C20: when the script resolves no tracker id it emits a single console warning,
\* registers no listener (no scroll callback is ever scheduled, no unload beacon queued)
\* and never sends an event; when it resolves one, exactly one depth-0 event is sent, on
\* load, before any scroll-triggered event.
C20_NoIdNoEvents ==
  /\ (phase # "init" /\ TRACKER_ID = "") =>
       (phase = "noid" /\ warned = 1 /\ sent = <<>> /\ ~ticking /\ scrollEvents = 0)
  /\ (phase # "init" /\ TRACKER_ID # "") =>
       /\ warned = 0
       /\ Len(sent) >= 1
       /\ sent[1].via = "fetch" /\ sent[1].milestone = 0 /\ sent[1].payload.scrollDepth = 0
       /\ sent[1].payload.timeOnPage = 0
       /\ \A i \in 2..Len(sent) :
            sent[i].via = "fetch" => sent[i].payload.scrollDepth > 0

C20_Witness == phase = "noid" /\ TRACKER_ID = "" /\ warned = 1 /\ sent = <<>>

\* a message of the page view that POST /api/track stores when its tracker exists
Storable(m) ==
  /\ SchemaOK(m.payload)
  /\ ValidDate(m.payload.timestamp)
  /\ StorageAccepts(InsertValues(m.payload, "", ""), {m.payload.trackerId})

\* the rows the page view has put in scroll_events so far, oldest first
ViewRows ==
  LET stored == SelectSeq(sent, Storable) IN
    [i \in 1..Len(stored) |-> StoredRow(InsertValues(stored[i].payload, "", ""))]

\* C27: one page view contributes at most one session to totalSessions, whatever
\* events it sends; when the visitor has reached the bottom of the page, the sessions
\* reconstructed from the view give scrollCompletionRate = 100.
C27_OneViewOneSession ==
  LET stats == EngagementStats(ViewRows) IN
    /\ stats.totalSessions <= 1
    /\ (100 \in fired /\ stats.totalSessions >= 1) => stats.scrollCompletionRate = 100

(***************************************************************************)
(* Claims about the dashboard aggregation, under SpecDash.                 *)
(***************************************************************************)
Deep(m) == Cardinality({i \in 1..Len(events) : events[i].scroll_depth >= m})

\* p is x/t rounded to the nearest integer: |p - x/t| <= 1/2
Nearest(p, x, t) == 2 * (p * t - x) <= t /\ 2 * (x - p * t) <= t

\* C10: for the loaded event set, each milestone percentage is the number of events at or
\* beyond the milestone times 100 over the number of events, rounded to the nearest
\* integer; for the empty set the denominator is 1, so the four percentages and the
\* reported total are 0.
C10_MilestonePercentages ==
  LET t == IF Len(events) = 0 THEN 1 ELSE Len(events) IN
    /\ Nearest(milestoneStats.p25, 100 * Deep(25), t)
    /\ Nearest(milestoneStats.p50, 100 * Deep(50), t)
    /\ Nearest(milestoneStats.p75, 100 * Deep(75), t)
    /\ Nearest(milestoneStats.p100, 100 * Deep(100), t)
    /\ milestoneStats.total = Len(events)
    /\ Len(events) = 0 =>
         milestoneStats = [p25 |-> 0, p50 |-> 0, p75 |-> 0, p100 |-> 0, total |-> 0]

C10_Witness ==
  /\ Len(events) = 3
  /\ milestoneStats.p25 = 67 /\ milestoneStats.p75 = 33 /\ milestoneStats.total = 3
  /\ \E i \in 1..3 : events[i].scroll_depth = 25

Depths(ev) == [i \in 1..Len(ev) |-> ev[i].scroll_depth]

\* C11 (as stated): with exactly three events loaded, at depths 20, 60 and 100, the
\* dashboard shows p25 = 66, p50 = 66, p75 = 33, p100 = 33 and total = 3.
C11_ThreeEvents66 ==
  Depths(events) = <<20, 60, 100>> =>
    milestoneStats = [p25 |-> 66, p50 |-> 66, p75 |-> 33, p100 |-> 33, total |-> 3]

\* C11 (amended): with exactly three events loaded, at depths 20, 60 and 100, the
\* dashboard shows p25 = 67, p50 = 67, p75 = 33, p100 = 33 and total = 3: two thirds
\* is 66.67 per cent, which rounds to 67.
C11_ThreeEvents67 ==
  Depths(events) = <<20, 60, 100>> =>
    milestoneStats = [p25 |-> 67, p50 |-> 67, p75 |-> 33, p100 |-> 33, total |-> 3]

C11_Witness == Depths(events) = <<20, 60, 100>> /\ milestoneStats.total = 3

\* C12: for the loaded event set the milestone percentages never increase from one
\* milestone to the next, p25 >= p50 >= p75 >= p100, and each lies in [0,100].
C12_PercentagesMonotone ==
  /\ milestoneStats.p25 >= milestoneStats.p50
  /\ milestoneStats.p50 >= milestoneStats.p75
  /\ milestoneStats.p75 >= milestoneStats.p100
  /\ \A k \in {"p25", "p50", "p75", "p100"} : milestoneStats[k] \in 0..100

C12_Witness ==
  /\ milestoneStats.p25 = 100 /\ milestoneStats.p25 > milestoneStats.p50
  /\ milestoneStats.p75 > milestoneStats.p100 /\ milestoneStats.p100 > 0

\* the loaded events in which total_time_on_page and max_scroll_depth are both present
\* and non-zero, by position, and the distinct pairs among them
WithBoth ==
  {i \in 1..Len(events) :
     /\ Has(events[i], "total_time_on_page") /\ events[i].total_time_on_page # 0
     /\ Has(events[i], "max_scroll_depth") /\ events[i].max_scroll_depth # 0}

PairOf(i) == <<events[i].total_time_on_page, events[i].max_scroll_depth>>

Pairs == {PairOf(i) : i \in WithBoth}

\* C21: the number of sessions is the number of distinct (total_time_on_page,
\* max_scroll_depth) pairs among the loaded events that have both fields present and
\* non-zero; events missing either contribute none; and the representative of a pair is
\* its first event in load order (visible when there is one session: the average scroll
\* speed is that of the first event of the pair, 0 when it has no event count).
C21_SessionsArePairs ==
  /\ engagementStats.totalSessions = Cardinality(Pairs)
  /\ Cardinality(Pairs) = 1 =>
       LET first == events[CHOOSE i \in WithBoth : \A j \in WithBoth : i <= j] IN
         IF Has(first, "scroll_events_count") /\ first.scroll_events_count # 0
           THEN Nearest(engagementStats.avgScrollSpeed, first.total_time_on_page,
                        first.scroll_events_count)
           ELSE engagementStats.avgScrollSpeed = 0

\* an event without max_scroll_depth, then two events of one pair with different counts
C21_Witness ==
  /\ Len(events) = 3
  /\ 1 \notin WithBoth /\ Has(events[1], "total_time_on_page")
  /\ WithBoth = {2, 3} /\ PairOf(2) = PairOf(3)
  /\ Has(events[2], "scroll_events_count") /\ events[2].scroll_events_count = 3
  /\ Has(events[3], "scroll_events_count") /\ events[3].scroll_events_count = 4
  /\ engagementStats.totalSessions = 1 /\ engagementStats.avgScrollSpeed = 4000

C18_EventsReferenceTrackers ==
  /\ [](\A i \in 1..Len(scroll_events) : scroll_events[i].tracker_id \in trackers)
  /\ [][\A t \in TrackerIds :
          (t \in trackers /\ t \notin trackers') =>
            scroll_events' = SelectSeq(scroll_events, LAMBDA e : e.tracker_id # t)]_vars

\* a tracker deleted with an event stored (removed with it) and while a second request
\* was between its lookup and its insert (refused by storage)
C18_Witness ==
  /\ scroll_events = <<>>
  /\ \E r \in Requests, p \in Requests :
       /\ req[r].pc = "done" /\ req[r].status = 204
       /\ req[p].pc = "done" /\ req[p].status = 500 /\ req[p].found
       /\ req[p].storageErr = "insert"
       /\ req[p].body.trackerId = req[r].body.trackerId
       /\ req[r].body.trackerId \notin trackers

\* C19: every stored row has an integer scroll_depth in [0,100], and viewport_w and
\* viewport_h each either absent or an integer in (0,20000].
C19_StoredRowsInRange ==
  \A i \in 1..Len(scroll_events) :
    LET e == scroll_events[i] IN
      /\ "scroll_depth" \notin e.frac /\ e.scroll_depth \in 0..100
      /\ Has(e, "viewport_w") => e.viewport_w \in 1..20000
      /\ Has(e, "viewport_h") => e.viewport_h \in 1..20000

\* a row with a viewport is stored and a request with a fractional depth was refused by
\* storage
C19_Witness ==
  /\ \E i \in 1..Len(scroll_events) :
       /\ scroll_events[i].scroll_depth = 0
       /\ Has(scroll_events[i], "viewport_w") /\ scroll_events[i].viewport_w = 20000
  /\ \E r \in Requests :
       /\ req[r].pc = "done" /\ req[r].status = 500 /\ req[r].storageErr = "insert"
       /\ IsFrac(req[r].body, "scrollDepth")

\* request r is answered 204 in this step, its row being the last of scroll_events'
Accepted(r) == req[r].pc = "insert" /\ req'[r].pc = "done" /\ req'[r].status = 204

\* C30: every stored row has a non-null, non-empty ip_address: the x-forwarded-for
\* header when the request has one, else x-real-ip, else "unknown"; so splitting the
\* address of a stored row for hashing never throws.
C30_AddressNeverNull ==
  /\ [](/\ \A i \in 1..Len(scroll_events) :
             Has(scroll_events[i], "ip_address") /\ scroll_events[i].ip_address # ""
        /\ ~SplitThrows(scroll_events))
  /\ [][\A r \in Requests :
          Accepted(r) =>
            LET ip == scroll_events'[Len(scroll_events')].ip_address IN
              /\ req[r].xff # "" => ip = req[r].xff
              /\ (req[r].xff = "" /\ req[r].xreal # "") => ip = req[r].xreal
              /\ (req[r].xff = "" /\ req[r].xreal = "") => ip = "unknown"]_vars

\* a row stored for a request without forwarding headers, one for a request with
\* x-real-ip only
C30_Witness ==
  /\ Len(scroll_events) = 2
  /\ scroll_events[1].ip_address = "unknown"
  /\ scroll_events[2].ip_address = "198.51.100.2"
  /\ \E r \in Requests : req[r].pc = "done" /\ req[r].xff = "" /\ req[r].xreal = ""

\* C28: for every accepted request, each optional numeric field present in the body
\* (timeOnPage, totalTimeOnPage, maxScrollDepth, scrollEvents, device.width,
\* device.height) is stored with the value sent, and a column is NULL only when the
\* field was absent from the request.
C28_NumbersStoredAsSent ==
  [][\A r \in Requests :
       Accepted(r) =>
         LET b == req[r].body
             dv == IF Has(b, "device") THEN b.device ELSE [frac |-> {}]
             row == scroll_events'[Len(scroll_events')]
             kept(o, k, c) == /\ Has(o, k) <=> Has(row, c)
                              /\ Has(o, k) => row[c] = o[k]
         IN  /\ kept(b, "timeOnPage", "time_on_page")
             /\ kept(b, "totalTimeOnPage", "total_time_on_page")
             /\ kept(b, "maxScrollDepth", "max_scroll_depth")
             /\ kept(b, "scrollEvents", "scroll_events_count")
             /\ kept(dv, "width", "viewport_w")
             /\ kept(dv, "height", "viewport_h")]_vars

(***************************************************************************)
(* Claims about device classification, under SpecDevice.                   *)
(***************************************************************************)
\* C14: the device type shown for a row is determined by the row's user agent and
\* viewport sides alone (classifying the same row again gives the same type), and every
\* user agent that matches iPad, in any letter case, is classified Tablet whatever the
\* viewport.
C14_IpadIsTablet ==
  /\ [](deviceType # "" =>
          /\ deviceType \in {"Unknown", "Tablet", "Mobile", "Desktop"}
          /\ (/\ Has(deviceRow, "ua")
              /\ \E i \in 1..Len(Words(deviceRow.ua)) :
                   toLowerCase(Words(deviceRow.ua)[i]) = "ipad")
             => deviceType = "Tablet")
  /\ [][(deviceType # "" /\ deviceRow' = deviceRow) => deviceType' = deviceType]_vars

\* an upper-case iPad user agent that also says Mobile, on a phone-sized viewport
C14_Witness ==
  /\ deviceType = "Tablet"
  /\ Has(deviceRow, "ua") /\ deviceRow.ua = "Mozilla/5.0 (IPAD; Mobile)"
  /\ Has(deviceRow, "viewport_w") /\ deviceRow.viewport_w = 390
  /\ ~Has(deviceRow, "viewport_h")

\* the lower-cased words of the classified row's user agent, and its viewport sides
RowAgent ==
  IF Has(deviceRow, "ua")
    THEN {toLowerCase(Words(deviceRow.ua)[i]) : i \in 1..Len(Words(deviceRow.ua))}
    ELSE {}

RowSide(c) == IF Has(deviceRow, c) THEN deviceRow[c] ELSE 0

\* C24: a classified row gets exactly one of Desktop, Mobile, Tablet, Unknown: Unknown
\* when the user agent is empty, whatever the viewport; otherwise Tablet when the user
\* agent says ipad, or android and not mobile, or when both viewport sides lie in
\* [768,1024]; otherwise Mobile when the user agent matches the mobile pattern;
\* otherwise Desktop.
C24_DevicePrecedence ==
  deviceType # "" =>
    LET tabletAgent == "ipad" \in RowAgent \/ ("android" \in RowAgent /\ "mobile" \notin RowAgent)
        tabletView == /\ RowSide("viewport_w") \in 768..1024
                      /\ RowSide("viewport_h") \in 768..1024
        mobileAgent == RowAgent \cap {"android", "webos", "iphone", "ipad", "ipod",
                                      "blackberry", "iemobile", "opera mini"} # {}
    IN  deviceType =
          IF ~Has(deviceRow, "ua") THEN "Unknown"
          ELSE IF tabletAgent \/ tabletView THEN "Tablet"
          ELSE IF mobileAgent THEN "Mobile"
          ELSE "Desktop"

\* a desktop user agent on a 768 by 1024 viewport is a Tablet
C24_Witness ==
  /\ deviceType = "Tablet"
  /\ Has(deviceRow, "ua") /\ deviceRow.ua = "Mozilla/5.0 (Windows NT 10.0)"
  /\ RowSide("viewport_w") = 768 /\ RowSide("viewport_h") = 1024

(***************************************************************************)
(* Claims about the dashboard's refreshes, under SpecRefresh.              *)
(***************************************************************************)
\* the loadEvents answer of refresh s arrives in this step, as a result or as an error
EventsOk(s) == refresh[s].ev = "pending" /\ refresh'[s].ev = "ok"
EventsFail(s) == refresh[s].ev = "pending" /\ refresh'[s].ev = "error"

\* the loadUserStats answer of refresh s arrives in this step as an error
UserStatsFail(s) == refresh[s].us = "pending" /\ refresh'[s].us = "error"

C15_FailureKeepsState ==
  [][\A s \in Refreshes :
       (EventsFail(s) \/ UserStatsFail(s)) =>
         /\ events' = events /\ userStats' = userStats
         /\ milestoneStats' = milestoneStats /\ engagementStats' = engagementStats]_vars

\* both loads of the second refresh failed after the first refresh had loaded both
C15_Witness ==
  /\ refresh[1].ev = "ok" /\ refresh[1].us = "ok"
  /\ refresh[2].ev = "error" /\ refresh[2].us = "error"
  /\ events = refresh[1].evData /\ Len(events) = 3
  /\ Len(userStats) = 2

\* C16: every failed dashboard load (loadEvents or loadUserStats) is surfaced by a
\* blocking notification (one more alert dialog), and the failed load is not retried
\* (it stays failed).
C16_FailuresAlerted ==
  [][\A s \in Refreshes :
       /\ (EventsFail(s) \/ UserStatsFail(s)) => alerts' = alerts + 1
       /\ refresh[s].ev = "error" => refresh'[s].ev = "error"
       /\ refresh[s].us = "error" => refresh'[s].us = "error"]_vars

\* C17: refreshes overlap and are neither cancelled nor coalesced: a load stays pending
\* until its own answer arrives, and every answer that arrives with rows replaces the
\* displayed event set, whatever the order of the requests; so with two refreshes in
\* flight the set displayed after both is the one that arrived last, which can be the
\* answer to the earlier request.
C17_LastArrivalWins ==
  [][\A s \in Refreshes :
       /\ EventsOk(s) => events' = refresh'[s].evData
       /\ (refresh[s].ev = "pending" /\ refresh'[s].ev # "pending") =>
            (EventsOk(s) \/ EventsFail(s))
       /\ (refresh[s].ev = "none" /\ refresh'[s].ev = "pending") =>
            (refresh[s].pc = "idle" /\ refresh'[s].pc = "awaiting")]_vars

\* both refreshes got rows, different ones, and the set displayed is the one the
\* earlier refresh got: its answer arrived after the later refresh's
C17_Witness ==
  /\ refresh[1].ev = "ok" /\ refresh[2].ev = "ok"
  /\ refresh[1].evData # refresh[2].evData
  /\ events = refresh[1].evData

\* the signed 32-bit value of h = int32(31 * h + charCode) folded from 0 over the
\* characters of a sample address, computed outside the model
FoldedHash(ip) ==
  CASE ip = "203.0.113.7" -> 1392238757
    [] ip = "198.51.100.2" -> -1488929087
    [] ip = "10.0.0.40" -> -1321751897
    [] ip = "unknown" -> -284840886

\* the country table as the claim reads it: codes in table order with their weights
TableCodes == <<"US", "IN", "CN", "NP", "GB", "DE", "CA", "AU", "FR", "JP">>

TableWeights == <<20, 18, 15, 15, 8, 6, 5, 4, 3, 2>>

\* the first country in table order whose cumulative weight exceeds r, US for r >= 96
CountryOf(ip) ==
  LET h == FoldedHash(ip)
      r == (IF h < 0 THEN -h ELSE h) % 100
      over == {i \in 1..10 : r < Sum(SubSeq(TableWeights, 1, i))}
  IN  IF r >= 96 THEN "US" ELSE TableCodes[CHOOSE i \in over : \A j \in over : i <= j]

\* C23: the country shown for an address is a function of the address string alone:
\* with h the signed 32-bit fold h = int32(31 * h + charCode) from 0 and r = |h| mod 100
\* it is the first country in table order whose cumulative weight exceeds r, and US for
\* r in 96..99 (the weights sum to 96); so every address gets exactly one of the ten
\* countries and the same address gets the same country in every refresh.
C23_CountryByHash ==
  /\ Sum(TableWeights) = 96
  /\ \A i \in 1..Len(userStats) :
       /\ userStats[i].country = CountryOf(userStats[i].ip)
       /\ \E k \in 1..10 : /\ countries[k].code = userStats[i].country
                           /\ countries[k].name = userStats[i].countryName
       /\ \A j \in 1..Len(userStats) : userStats[j].ip = userStats[i].ip => j = i

\* an address with r = 57 (Nepal) and one with r = 97, beyond the weights (US), shown
\* after two refreshes got their user rows
C23_Witness ==
  /\ \A s \in Refreshes : refresh[s].us = "ok"
  /\ \E i, j \in 1..Len(userStats) :
       /\ userStats[i].ip = "203.0.113.7" /\ userStats[i].country = "NP"
       /\ userStats[j].ip = "10.0.0.40" /\ userStats[j].country = "US"

\* C26: isRefreshing is true exactly while at least one refresh is in flight: never
\* false while a refresh is pending, and false again once every refresh that started is
\* over, whether its loads succeeded, failed or threw.
C26_RefreshingWhileInFlight ==
  isRefreshing <=> \E s \in Refreshes : refresh[s].ev = "pending" \/ refresh[s].us = "pending"

\* C25: the events and user stats the dashboard holds are empty or were fetched for the
\* tracker that is selected now: some refresh started for the selected tracker got
\* exactly these events, and some refresh started for it got user rows.
C25_DataOfSelectedTracker ==
  /\ events # <<>> =>
       \E s \in Refreshes : /\ refresh[s].trackerId = trackerId
                            /\ refresh[s].ev = "ok" /\ refresh[s].evData = events
  /\ userStats # <<>> =>
       \E s \in Refreshes : refresh[s].trackerId = trackerId /\ refresh[s].us = "ok"

(***************************************************************************)
(* Claims about the dashboard across sessions, under SpecAuth.             *)
(***************************************************************************)
\* C29: once the auth session has ended the dashboard holds no selected tracker, no
\* events and no user stats; and a signed-in user never has another user's tracker
\* selected, nor events that were fetched for another user's tracker.
C29_SessionEndClearsState ==
  /\ session = "" => (trackerId = "" /\ events = <<>> /\ userStats = <<>>)
  /\ (session # "" /\ trackerId # "") => trackerId \in Range(TrackerRows(session))
  /\ (session # "" /\ events # <<>>) =>
       \E s \in Refreshes : /\ refresh[s].ev = "ok" /\ refresh[s].evData = events
                            /\ refresh[s].trackerId \in Range(TrackerRows(session))

====
